---- MODULE Spec2Model ----
(***************************************************************************)
(* A model of the workout store of src/app.py: the five tables of init_db  *)
(* and one action per request handler that writes to them.  Every handler  *)
(* runs to completion before the next one starts (Spec); each action is    *)
(* the whole handler, from its form parsing to its commit and redirect.    *)
(* Requests served by concurrent workers are modelled statement by         *)
(* statement for the handlers the concurrency and connection claims are    *)
(* about: variable requests holds, for each worker, the request it is      *)
(* serving, the values that request has read, and whether its connection   *)
(* is open.                                                                *)
(*                                                                         *)
(* Conventions                                                             *)
(*  - a table is a function from the ids of its rows to records;           *)
(*  - SQL NULL / Python None is NULL for numbers and NO_TEXT for text;     *)
(*  - text that the code strips is a sequence of one-character strings;    *)
(*  - REAL columns hold the numbers the model's inputs denote;             *)
(*  - the columns date and created_at, which no handler reads back to      *)
(*    decide a write, are left out;                                        *)
(*  - a path parameter that a handler passes only to its redirect          *)
(*    (workout_id of add_set, delete_set and delete_exercise, exercise_id  *)
(*    of delete_set, template_id of delete_template_exercise) is not a     *)
(*    parameter of its action.                                             *)
(***************************************************************************)
EXTENDS Integers, Sequences, FiniteSets, TLC

\* ------------------------------------------------------------------ bounds
MaxWorkouts == 2            \* workouts inserted in one run
MaxExercises == 3           \* exercises inserted in one run
MaxSets == 3                \* sets inserted in one run
MaxTemplates == 1           \* templates inserted in one run
MaxTemplateExercises == 2   \* template exercises inserted in one run
MaxTime == 2                \* values of CURRENT_TIMESTAMP: 1..MaxTime
MaxWorkers == 2             \* workers serving requests at the same time

\* ------------------------------------------------------------------ values
NULL == -1
NO_TEXT == "<NULL>"
ABSENT == "<absent>"        \* a form field that was not submitted

\* Path parameters: the ids a request may name, one of them naming no row.
WorkoutArgs == 1..(MaxWorkouts + 1)
ExerciseArgs == 1..(MaxExercises + 1)
SetArgs == 1..(MaxSets + 1)
TemplateArgs == 1..(MaxTemplates + 1)
TemplateExerciseArgs == 1..(MaxTemplateExercises + 1)

WorkoutTypes == {"strength", "run"}
RawNames == { <<>>, <<" ">>, <<" ", "B", " ">> }
RawTemplateNames == { <<" ">>, <<"P", " ">> }
RawTemplateExerciseNames == { <<" ">>, <<"B">>, <<" ", "S">> }
NotesInputs == { ABSENT, "good" }
RepsInputs == { "5", "x" }
WeightInputs == { "100" }
DurationInputs == { ABSENT, "30", "abc" }
DistanceInputs == { ABSENT, "5", "abc" }
TargetSetsInputs == { ABSENT, "x" }
TargetRepsInputs == { ABSENT, "8" }
TargetWeightInputs == { ABSENT }

VARIABLES workouts, exercises, sets, templates, template_exercises,
          seq, now, last, requests

db == <<workouts, exercises, sets, templates, template_exercises, seq>>
vars == <<workouts, exercises, sets, templates, template_exercises, seq, now, last,
          requests>>

\* ------------------------------------------------------------------ helpers
IsSpace(c) == c = " "

RECURSIVE LStrip(_)
LStrip(s) == IF s # <<>> /\ IsSpace(Head(s)) THEN LStrip(Tail(s)) ELSE s

RECURSIVE RStrip(_)
RStrip(s) ==
    IF s # <<>> /\ IsSpace(s[Len(s)]) THEN RStrip(SubSeq(s, 1, Len(s) - 1)) ELSE s

\* a slip: the name is used as typed
StripForgotten(s) == s

\* str.strip()
Strip(s) == RStrip(LStrip(s))

\* int(text) / float(text): the number, or NULL when Python raises ValueError
ParseNumber(text) ==
    CASE text = "5" -> 5
      [] text = "8" -> 8
      [] text = "30" -> 30
      [] text = "100" -> 100
      [] text = "0" -> 0
      [] text = "3" -> 3
      [] text = "10" -> 10
      [] OTHER -> NULL

\* request.form.get(key, type=...): None when the field is absent or unparsable
FormGetTyped(text) == IF text = ABSENT THEN NULL ELSE ParseNumber(text)

\* request.form.get(key, default)
FormGet(text, default) == IF text = ABSENT THEN default ELSE text

SetMax(S) == CHOOSE m \in S : \A x \in S : x <= m

\* SELECT MAX(col): NULL over no rows
SqlMax(S) == IF S = {} THEN NULL ELSE SetMax(S)

\* Python's (value or 0): None and 0 are both falsy
OrZero(v) == IF v = NULL \/ v = 0 THEN 0 ELSE v

\* restriction of a table to the rows whose id is in keep
Restrict(table, keep) == [i \in keep |-> table[i]]

\* table with row id added
Insert(table, id, row) == [i \in DOMAIN table \cup {id} |-> IF i = id THEN row ELSE table[i]]

ExercisesOf(w) == { e \in DOMAIN exercises : exercises[e].workout_id = w }
SetsOf(e) == { s \in DOMAIN sets : sets[s].exercise_id = e }
SetsOfWorkout(w) == { s \in DOMAIN sets : sets[s].exercise_id \in ExercisesOf(w) }
TemplateExercisesOf(t) ==
    { x \in DOMAIN template_exercises : template_exercises[x].template_id = t }

OrderNums(w) == { exercises[e].order_num : e \in ExercisesOf(w) }
SetNumbers(e) == { sets[s].set_number : s \in SetsOf(e) }
TemplateOrderNums(t) == { template_exercises[x].order_num : x \in TemplateExercisesOf(t) }

\* the request just served: endpoint, the owning row it addressed (0: none),
\* the order_num / set_number it assigned or removed (0: none), the status
\* the addressed workout had before it ("none"), and where it redirected
Served(op, id, num, pre, to) == [op |-> op, id |-> id, num |-> num, pre |-> pre, to |-> to]

StatusOf(w) == IF w \in DOMAIN workouts THEN workouts[w].status ELSE "none"

Workers == 1..MaxWorkers

\* a request in a worker: its endpoint, the statement it is at ("done": it
\* has returned or raised), the row id of its path, the value its SELECT
\* read, its parsed form fields, whether the connection it got from get_db
\* is open, and its response ("none" until it is done, "500" when it raised)
Request(op, pc, arg, read, form, open, to) ==
    [op |-> op, pc |-> pc, arg |-> arg, read |-> read, form |-> form,
     open |-> open, to |-> to]

NoRequest == Request("none", "done", 0, 0, << >>, FALSE, "none")

\* ------------------------------------------------------------------ init
Init ==
    /\ workouts = << >>
    /\ exercises = << >>
    /\ sets = << >>
    /\ templates = << >>
    /\ template_exercises = << >>
    /\ seq = [workouts |-> 0, exercises |-> 0, sets |-> 0,
              templates |-> 0, template_exercises |-> 0]
    /\ now = 1
    /\ last = Served("init", 0, 0, "none", "index")
    /\ requests = [k \in Workers |-> NoRequest]

\* CURRENT_TIMESTAMP advances between requests
Tick ==
    /\ now < MaxTime
    /\ now' = now + 1
    /\ UNCHANGED <<db, last, requests>>

\* ------------------------------------------------------------------ workouts
NewWorkout(workout_type, template_id) ==
    [workout_type |-> workout_type, status |-> "in_progress", notes |-> NO_TEXT,
     duration_minutes |-> NULL, distance_km |-> NULL, template_id |-> template_id,
     completed_at |-> NULL]

start_workout(workout_type) ==
    /\ seq.workouts < MaxWorkouts
    /\ LET workout_id == seq.workouts + 1 IN
        /\ workouts' = Insert(workouts, workout_id, NewWorkout(workout_type, NULL))
        /\ seq' = [seq EXCEPT !.workouts = workout_id]
        /\ last' = Served("start_workout", workout_id, 0, "none",
                          IF workout_type = "run" THEN "active_run" ELSE "active_workout")
    /\ UNCHANGED <<exercises, sets, templates, template_exercises, now, requests>>

\* ------------------------------------------------------------------ exercises
NewExercise(workout_id, name, order_num, target_sets, target_reps, target_weight) ==
    [workout_id |-> workout_id, name |-> name, order_num |-> order_num,
     target_sets |-> target_sets, target_reps |-> target_reps,
     target_weight |-> target_weight]

\* a slip: the + 1 applied only when there is no row yet
NextNumberNoIncrement(max) == IF OrZero(max) = 0 THEN 1 ELSE max

\* a slip: COUNT-like numbering that restarts below the maximum left by a delete
NextNumberFirstFree(max) == IF OrZero(max) <= 1 THEN OrZero(max) + 1 ELSE max - 1

\* next_order = (result['max_order'] or 0) + 1
NextNumber(max) == OrZero(max) + 1

add_exercise(workout_id, exercise_name) ==
    LET name == Strip(exercise_name)
        next_order == NextNumber(SqlMax(OrderNums(workout_id)))
        exercise_id == seq.exercises + 1
    IN  \/ /\ name = <<>>
           /\ last' = Served("add_exercise", 0, 0, "none", "active_workout")
           /\ UNCHANGED <<db, now, requests>>
        \/ /\ name # <<>>
           /\ workout_id \notin DOMAIN workouts      \* foreign key: the INSERT raises
           /\ last' = Served("add_exercise", 0, 0, "none", "500")
           /\ UNCHANGED <<db, now, requests>>
        \/ /\ name # <<>>
           /\ workout_id \in DOMAIN workouts
           /\ seq.exercises < MaxExercises
           /\ exercises' = Insert(exercises, exercise_id,
                   NewExercise(workout_id, name, next_order, NULL, NULL, NULL))
           /\ seq' = [seq EXCEPT !.exercises = exercise_id]
           /\ last' = Served("add_exercise", workout_id, next_order, "none", "active_workout")
           /\ UNCHANGED <<workouts, sets, templates, template_exercises, now, requests>>

delete_exercise(exercise_id) ==
    /\ sets' = Restrict(sets, DOMAIN sets \ SetsOf(exercise_id))
    /\ exercises' = Restrict(exercises, DOMAIN exercises \ {exercise_id})
    /\ last' = IF exercise_id \in DOMAIN exercises
               THEN Served("delete_exercise", exercises[exercise_id].workout_id,
                           exercises[exercise_id].order_num, "none", "active_workout")
               ELSE Served("delete_exercise", 0, 0, "none", "active_workout")
    /\ UNCHANGED <<workouts, templates, template_exercises, seq, now, requests>>

\* ------------------------------------------------------------------ sets
add_set(exercise_id, reps_text, weight_text) ==
    LET reps == ParseNumber(reps_text)
        weight == ParseNumber(weight_text)
        next_set == NextNumber(SqlMax(SetNumbers(exercise_id)))
        set_id == seq.sets + 1
    IN  \/ /\ (reps = NULL \/ weight = NULL)          \* int() / float() raises
           /\ last' = Served("add_set", 0, 0, "none", "500")
           /\ UNCHANGED <<db, now, requests>>
        \/ /\ reps # NULL /\ weight # NULL
           /\ exercise_id \notin DOMAIN exercises    \* foreign key: the INSERT raises
           /\ last' = Served("add_set", 0, 0, "none", "500")
           /\ UNCHANGED <<db, now, requests>>
        \/ /\ reps # NULL /\ weight # NULL
           /\ exercise_id \in DOMAIN exercises
           /\ seq.sets < MaxSets
           /\ sets' = Insert(sets, set_id,
                   [exercise_id |-> exercise_id, set_number |-> next_set,
                    reps |-> reps, weight |-> weight])
           /\ seq' = [seq EXCEPT !.sets = set_id]
           /\ last' = Served("add_set", exercise_id, next_set, "none", "active_workout")
           /\ UNCHANGED <<workouts, exercises, templates, template_exercises, now, requests>>

delete_set(set_id) ==
    /\ sets' = Restrict(sets, DOMAIN sets \ {set_id})
    /\ last' = IF set_id \in DOMAIN sets
               THEN Served("delete_set", sets[set_id].exercise_id,
                           sets[set_id].set_number, "none", "active_workout")
               ELSE Served("delete_set", 0, 0, "none", "active_workout")
    /\ UNCHANGED <<workouts, exercises, templates, template_exercises, seq, now, requests>>

\* ------------------------------------------------------------------ run, finish
\* a slip: saving run details puts the workout back in progress
RunUpdatedReopens(row, duration, distance) ==
    [row EXCEPT !.duration_minutes = duration, !.distance_km = distance,
                !.status = "in_progress"]

\* a slip: a field that was not submitted keeps the value it had
RunUpdatedKeepsOld(row, duration, distance) ==
    [row EXCEPT !.duration_minutes = IF duration = NULL THEN @ ELSE duration,
                !.distance_km = IF distance = NULL THEN @ ELSE distance]

\* UPDATE workouts SET duration_minutes = ?, distance_km = ?
RunUpdated(row, duration, distance) ==
    [row EXCEPT !.duration_minutes = duration, !.distance_km = distance]

update_run(workout_id, duration_text, distance_text) ==
    LET duration == FormGetTyped(duration_text)
        distance == FormGetTyped(distance_text)
    IN  /\ workouts' = [w \in DOMAIN workouts |->
                IF w = workout_id THEN RunUpdated(workouts[w], duration, distance)
                                  ELSE workouts[w]]
        /\ last' = Served("update_run", IF workout_id \in DOMAIN workouts THEN workout_id ELSE 0,
                          0, StatusOf(workout_id), "workout_summary")
        /\ UNCHANGED <<exercises, sets, templates, template_exercises, seq, now, requests>>

\* a slip: the UPDATE sets the status and the notes and forgets completed_at
FinishedRowNoTimestamp(row, notes, at) ==
    [row EXCEPT !.status = "completed", !.notes = notes]

\* a slip: a workout that is already completed is left as it is
FinishedRowOnce(row, notes, at) ==
    IF row.status = "completed" THEN row
    ELSE [row EXCEPT !.status = "completed", !.notes = notes, !.completed_at = at]

\* UPDATE workouts SET status = 'completed', notes = ?, completed_at = CURRENT_TIMESTAMP
FinishedRow(row, notes, at) ==
    [row EXCEPT !.status = "completed", !.notes = notes, !.completed_at = at]

finish_workout(workout_id, notes_text) ==
    LET notes == FormGet(notes_text, "")
    IN  /\ workouts' = [w \in DOMAIN workouts |->
                IF w = workout_id THEN FinishedRow(workouts[w], notes, now)
                                  ELSE workouts[w]]
        /\ last' = Served("finish_workout", IF workout_id \in DOMAIN workouts THEN workout_id ELSE 0,
                          0, StatusOf(workout_id), "view_workout")
        /\ UNCHANGED <<exercises, sets, templates, template_exercises, seq, now, requests>>

\* ------------------------------------------------------------------ cancel, delete
\* DELETE FROM workouts WHERE id = ? AND status = ?
DeleteWorkoutRow(workout_id, status) ==
    Restrict(workouts, { w \in DOMAIN workouts :
                            ~(w = workout_id /\ workouts[w].status = status) })

\* a slip: the sets are left behind when a workout's exercises are deleted
DeleteSetsOfWorkoutForgotten(workout_id) == sets

\* DELETE FROM sets WHERE exercise_id IN (SELECT id FROM exercises WHERE workout_id = ?)
DeleteSetsOfWorkout(workout_id) == Restrict(sets, DOMAIN sets \ SetsOfWorkout(workout_id))

\* a slip: DELETE FROM exercises without its WHERE clause
DeleteExercisesOfWorkoutEvery(workout_id) == Restrict(exercises, {})

\* DELETE FROM exercises WHERE workout_id = ?
DeleteExercisesOfWorkout(workout_id) ==
    Restrict(exercises, DOMAIN exercises \ ExercisesOf(workout_id))

cancel_workout(workout_id) ==
    /\ sets' = DeleteSetsOfWorkout(workout_id)
    /\ exercises' = DeleteExercisesOfWorkout(workout_id)
    /\ workouts' = DeleteWorkoutRow(workout_id, "in_progress")
    /\ last' = Served("cancel_workout", IF workout_id \in DOMAIN workouts THEN workout_id ELSE 0,
                      0, StatusOf(workout_id), "index")
    /\ UNCHANGED <<templates, template_exercises, seq, now, requests>>

delete_workout(workout_id) ==
    /\ sets' = DeleteSetsOfWorkout(workout_id)
    /\ exercises' = DeleteExercisesOfWorkout(workout_id)
    /\ workouts' = DeleteWorkoutRow(workout_id, "completed")
    /\ last' = Served("delete_workout", IF workout_id \in DOMAIN workouts THEN workout_id ELSE 0,
                      0, StatusOf(workout_id), "index")
    /\ UNCHANGED <<templates, template_exercises, seq, now, requests>>

\* ------------------------------------------------------------------ templates
new_template(name_text, workout_type) ==
    LET name == Strip(name_text)
        template_id == seq.templates + 1
    IN  \/ /\ name = <<>>
           /\ last' = Served("new_template", 0, 0, "none", "new_template")
           /\ UNCHANGED <<db, now, requests>>
        \/ /\ name # <<>>
           /\ seq.templates < MaxTemplates
           /\ templates' = Insert(templates, template_id,
                   [name |-> name, workout_type |-> workout_type])
           /\ seq' = [seq EXCEPT !.templates = template_id]
           /\ last' = Served("new_template", template_id, 0, "none", "edit_template")
           /\ UNCHANGED <<workouts, exercises, sets, template_exercises, now, requests>>

add_template_exercise(template_id, exercise_name, sets_text, reps_text, weight_text) ==
    LET name == Strip(exercise_name)
        target_sets == ParseNumber(FormGet(sets_text, "3"))
        target_reps == ParseNumber(FormGet(reps_text, "10"))
        target_weight == ParseNumber(FormGet(weight_text, "0"))
        parsed == target_sets # NULL /\ target_reps # NULL /\ target_weight # NULL
        next_order == NextNumber(SqlMax(TemplateOrderNums(template_id)))
        id == seq.template_exercises + 1
    IN  \/ /\ ~parsed                                   \* int() / float() raises
           /\ last' = Served("add_template_exercise", 0, 0, "none", "500")
           /\ UNCHANGED <<db, now, requests>>
        \/ /\ parsed
           /\ name = <<>>
           /\ last' = Served("add_template_exercise", 0, 0, "none", "edit_template")
           /\ UNCHANGED <<db, now, requests>>
        \/ /\ parsed
           /\ name # <<>>
           /\ template_id \notin DOMAIN templates       \* foreign key: the INSERT raises
           /\ last' = Served("add_template_exercise", 0, 0, "none", "500")
           /\ UNCHANGED <<db, now, requests>>
        \/ /\ parsed
           /\ name # <<>>
           /\ template_id \in DOMAIN templates
           /\ seq.template_exercises < MaxTemplateExercises
           /\ template_exercises' = Insert(template_exercises, id,
                   [template_id |-> template_id, name |-> name, order_num |-> next_order,
                    target_sets |-> target_sets, target_reps |-> target_reps,
                    target_weight |-> target_weight])
           /\ seq' = [seq EXCEPT !.template_exercises = id]
           /\ last' = Served("add_template_exercise", template_id, next_order, "none",
                             "edit_template")
           /\ UNCHANGED <<workouts, exercises, sets, templates, now, requests>>

delete_template_exercise(exercise_id) ==
    /\ template_exercises' =
           Restrict(template_exercises, DOMAIN template_exercises \ {exercise_id})
    /\ last' = IF exercise_id \in DOMAIN template_exercises
               THEN Served("delete_template_exercise",
                           template_exercises[exercise_id].template_id,
                           template_exercises[exercise_id].order_num, "none", "edit_template")
               ELSE Served("delete_template_exercise", 0, 0, "none", "edit_template")
    /\ UNCHANGED <<workouts, exercises, sets, templates, seq, now, requests>>

\* a slip: workouts.template_id declared with REFERENCES templates ON DELETE CASCADE
WorkoutsOnTemplateDeleteCascade(template_id) ==
    Restrict(workouts, { w \in DOMAIN workouts : workouts[w].template_id # template_id })

\* workouts.template_id is a plain INTEGER column: deleting the template
\* touches no workout row
WorkoutsOnTemplateDelete(template_id) == workouts

delete_template(template_id) ==
    /\ template_exercises' = Restrict(template_exercises,
           DOMAIN template_exercises \ TemplateExercisesOf(template_id))
    /\ templates' = Restrict(templates, DOMAIN templates \ {template_id})
    /\ workouts' = WorkoutsOnTemplateDelete(template_id)
    /\ last' = Served("delete_template",
                      IF template_id \in DOMAIN templates THEN template_id ELSE 0,
                      0, "none", "list_templates")
    /\ UNCHANGED <<exercises, sets, seq, now, requests>>

\* SELECT * FROM template_exercises WHERE template_id = ? ORDER BY order_num
\* (rows of equal order_num in id order)
RECURSIVE OrderByOrderNum(_)
OrderByOrderNum(ids) ==
    IF ids = {} THEN <<>>
    ELSE LET first == CHOOSE x \in ids : \A y \in ids :
                 \/ template_exercises[x].order_num < template_exercises[y].order_num
                 \/ /\ template_exercises[x].order_num = template_exercises[y].order_num
                    /\ x <= y
         IN  <<first>> \o OrderByOrderNum(ids \ {first})

\* a slip: the row is inserted the way add_exercise inserts it, without targets
ExerciseFromTemplateNoTargets(workout_id, te) ==
    NewExercise(workout_id, te.name, te.order_num, NULL, NULL, NULL)

\* the exercise row inserted for template exercise te
ExerciseFromTemplate(workout_id, te) ==
    NewExercise(workout_id, te.name, te.order_num,
                te.target_sets, te.target_reps, te.target_weight)

\* a slip: the redirect goes to the page of GET /templates
NotFoundTargetTemplates == "list_templates"

\* if not template: return redirect(url_for('select_workout_type'))
NotFoundTarget == "select_workout_type"

start_from_template(template_id) ==
    LET workout_id == seq.workouts + 1
        rows == OrderByOrderNum(TemplateExercisesOf(template_id))
        new_ids == (seq.exercises + 1)..(seq.exercises + Len(rows))
    IN  \/ /\ template_id \notin DOMAIN templates
           /\ last' = Served("start_from_template", 0, 0, "none", NotFoundTarget)
           /\ UNCHANGED <<db, now, requests>>
        \/ /\ template_id \in DOMAIN templates
           /\ seq.workouts < MaxWorkouts
           /\ seq.exercises + Len(rows) <= MaxExercises
           /\ workouts' = Insert(workouts, workout_id,
                   NewWorkout(templates[template_id].workout_type, template_id))
           /\ exercises' = [e \in DOMAIN exercises \cup new_ids |->
                   IF e \in new_ids
                   THEN ExerciseFromTemplate(workout_id,
                            template_exercises[rows[e - seq.exercises]])
                   ELSE exercises[e]]
           /\ seq' = [seq EXCEPT !.workouts = workout_id,
                                 !.exercises = seq.exercises + Len(rows)]
           /\ last' = Served("start_from_template", workout_id, 0, "none", "active_workout")
           /\ UNCHANGED <<sets, templates, template_exercises, now, requests>>

\* ------------------------------------------------------------------ detail view
\* SELECT * FROM exercises WHERE workout_id = ? ORDER BY order_num
\* (rows of equal order_num in id order)
RECURSIVE ExercisesByOrderNum(_)
ExercisesByOrderNum(ids) ==
    IF ids = {} THEN <<>>
    ELSE LET first == CHOOSE x \in ids : \A y \in ids :
                 \/ exercises[x].order_num < exercises[y].order_num
                 \/ /\ exercises[x].order_num = exercises[y].order_num
                    /\ x <= y
         IN  <<first>> \o ExercisesByOrderNum(ids \ {first})

\* a slip: ORDER BY set_number DESC
RECURSIVE SetsBySetNumberDescending(_)
SetsBySetNumberDescending(ids) ==
    IF ids = {} THEN <<>>
    ELSE LET first == CHOOSE x \in ids : \A y \in ids :
                 \/ sets[x].set_number > sets[y].set_number
                 \/ /\ sets[x].set_number = sets[y].set_number
                    /\ x <= y
         IN  <<first>> \o SetsBySetNumberDescending(ids \ {first})

\* SELECT * FROM sets WHERE exercise_id = ? ORDER BY set_number
\* (rows of equal set_number in id order)
RECURSIVE SetsBySetNumber(_)
SetsBySetNumber(ids) ==
    IF ids = {} THEN <<>>
    ELSE LET first == CHOOSE x \in ids : \A y \in ids :
                 \/ sets[x].set_number < sets[y].set_number
                 \/ /\ sets[x].set_number = sets[y].set_number
                    /\ x <= y
         IN  <<first>> \o SetsBySetNumber(ids \ {first})

\* exercises_with_sets of view_workout: the exercises of the workout, each
\* with its sets (none for a run)
exercises_with_sets(workout_id) ==
    IF workouts[workout_id].workout_type = "run" THEN <<>>
    ELSE LET rows == ExercisesByOrderNum(ExercisesOf(workout_id))
         IN  [i \in 1..Len(rows) |->
                 [exercise |-> exercises[rows[i]],
                  sets |-> LET ss == SetsBySetNumber(SetsOf(rows[i]))
                           IN  [j \in 1..Len(ss) |-> sets[ss[j]]]]]

\* ------------------------------------------------------------------ concurrent workers
\* a slip: the return is not preceded by conn.close()
CloseForgotten(open) == open

\* conn.close()
Close(open) == FALSE

\* what worker k holds once its request has returned (to) or raised ("500")
Returned(k, op, open, to) ==
    [requests EXCEPT ![k] = Request(op, "done", 0, 0, << >>, open, to)]

\* a slip: the number is computed by the INSERT itself, from the rows of now
NumberToInsertRecomputed(read, max_now) == NextNumber(max_now)

\* the INSERT binds next_order / next_set, computed from the row that the
\* request's own SELECT MAX(...) returned
NumberToInsert(read, max_now) == NextNumber(read)

\* add_exercise up to and including its SELECT MAX(order_num)
add_exercise_select(k, workout_id, exercise_name) ==
    LET name == Strip(exercise_name)
    IN  /\ requests[k].pc = "done"
        /\ \/ /\ name = <<>>
              /\ requests' = Returned(k, "add_exercise", FALSE, "active_workout")
              /\ last' = Served("add_exercise", 0, 0, "none", "active_workout")
           \/ /\ name # <<>>
              /\ requests' = [requests EXCEPT ![k] =
                     Request("add_exercise", "insert", workout_id,
                             SqlMax(OrderNums(workout_id)), name, TRUE, "none")]
              /\ UNCHANGED last
        /\ UNCHANGED <<db, now>>

\* add_exercise from its INSERT to its redirect
add_exercise_insert(k) ==
    LET r == requests[k]
        next_order == NumberToInsert(r.read, SqlMax(OrderNums(r.arg)))
        exercise_id == seq.exercises + 1
    IN  /\ r.op = "add_exercise" /\ r.pc = "insert"
        /\ \/ /\ r.arg \notin DOMAIN workouts         \* foreign key: the INSERT raises
              /\ requests' = Returned(k, "add_exercise", r.open, "500")
              /\ last' = Served("add_exercise", 0, 0, "none", "500")
              /\ UNCHANGED <<db, now>>
           \/ /\ r.arg \in DOMAIN workouts
              /\ seq.exercises < MaxExercises
              /\ exercises' = Insert(exercises, exercise_id,
                      NewExercise(r.arg, r.form, next_order, NULL, NULL, NULL))
              /\ seq' = [seq EXCEPT !.exercises = exercise_id]
              /\ requests' = Returned(k, "add_exercise", Close(r.open), "active_workout")
              /\ last' = Served("add_exercise", r.arg, next_order, "none", "active_workout")
              /\ UNCHANGED <<workouts, sets, templates, template_exercises, now>>

\* add_set up to and including its SELECT MAX(set_number)
add_set_select(k, exercise_id, reps_text, weight_text) ==
    LET reps == ParseNumber(reps_text)
        weight == ParseNumber(weight_text)
    IN  /\ requests[k].pc = "done"
        /\ \/ /\ (reps = NULL \/ weight = NULL)       \* int() / float() raises
              /\ requests' = Returned(k, "add_set", FALSE, "500")
              /\ last' = Served("add_set", 0, 0, "none", "500")
           \/ /\ reps # NULL /\ weight # NULL
              /\ requests' = [requests EXCEPT ![k] =
                     Request("add_set", "insert", exercise_id,
                             SqlMax(SetNumbers(exercise_id)), <<reps, weight>>, TRUE, "none")]
              /\ UNCHANGED last
        /\ UNCHANGED <<db, now>>

\* add_set from its INSERT to its redirect
add_set_insert(k) ==
    LET r == requests[k]
        next_set == NumberToInsert(r.read, SqlMax(SetNumbers(r.arg)))
        set_id == seq.sets + 1
    IN  /\ r.op = "add_set" /\ r.pc = "insert"
        /\ \/ /\ r.arg \notin DOMAIN exercises        \* foreign key: the INSERT raises
              /\ requests' = Returned(k, "add_set", r.open, "500")
              /\ last' = Served("add_set", 0, 0, "none", "500")
              /\ UNCHANGED <<db, now>>
           \/ /\ r.arg \in DOMAIN exercises
              /\ seq.sets < MaxSets
              /\ sets' = Insert(sets, set_id,
                      [exercise_id |-> r.arg, set_number |-> next_set,
                       reps |-> r.form[1], weight |-> r.form[2]])
              /\ seq' = [seq EXCEPT !.sets = set_id]
              /\ requests' = Returned(k, "add_set", Close(r.open), "active_workout")
              /\ last' = Served("add_set", r.arg, next_set, "none", "active_workout")
              /\ UNCHANGED <<workouts, exercises, templates, template_exercises, now>>

\* cur.fetchone() of SELECT * FROM workouts WHERE id = ?: the columns the
\* handlers branch on, "none" when there is no row
WorkoutRead(workout_id) ==
    [status |-> StatusOf(workout_id),
     workout_type |-> IF workout_id \in DOMAIN workouts
                      THEN workouts[workout_id].workout_type ELSE "none"]

\* cur.fetchone() of SELECT * FROM templates WHERE id = ?
TemplateRead(template_id) ==
    [workout_type |-> IF template_id \in DOMAIN templates
                      THEN templates[template_id].workout_type ELSE "none"]

\* active_workout, view_workout: get_db and the SELECT of the workout row
workout_page_select(k, op, workout_id) ==
    /\ requests[k].pc = "done"
    /\ requests' = [requests EXCEPT ![k] =
           Request(op, "respond", workout_id, WorkoutRead(workout_id), << >>, TRUE, "none")]
    /\ UNCHANGED <<db, now, last>>

\* active_workout from its test of the row to its return
active_workout_respond(k) ==
    LET r == requests[k]
        to == IF r.read.status # "in_progress" THEN "index" ELSE "active_workout.html"
    IN  /\ r.op = "active_workout" /\ r.pc = "respond"
        /\ requests' = Returned(k, "active_workout", Close(r.open), to)
        /\ last' = Served("active_workout", r.arg, 0, r.read.status, to)
        /\ UNCHANGED <<db, now>>

\* view_workout from its test of the row to its return
view_workout_respond(k) ==
    LET r == requests[k]
        to == CASE r.read.status = "none" -> "index"
                [] r.read.status = "in_progress" /\ r.read.workout_type = "run" -> "active_run"
                [] r.read.status = "in_progress" -> "active_workout"
                [] OTHER -> "view_workout.html"
    IN  /\ r.op = "view_workout" /\ r.pc = "respond"
        /\ requests' = Returned(k, "view_workout", Close(r.open), to)
        /\ last' = Served("view_workout", r.arg, 0, r.read.status, to)
        /\ UNCHANGED <<db, now>>

\* start_from_template: get_db and the SELECT of the template row
start_from_template_select(k, template_id) ==
    /\ requests[k].pc = "done"
    /\ requests' = [requests EXCEPT ![k] =
           Request("start_from_template", "insert", template_id,
                   TemplateRead(template_id), << >>, TRUE, "none")]
    /\ UNCHANGED <<db, now, last>>

\* start_from_template from its test of the row to its return
start_from_template_insert(k) ==
    LET r == requests[k]
        workout_id == seq.workouts + 1
        rows == OrderByOrderNum(TemplateExercisesOf(r.arg))
        new_ids == (seq.exercises + 1)..(seq.exercises + Len(rows))
    IN  /\ r.op = "start_from_template" /\ r.pc = "insert"
        /\ \/ /\ r.read.workout_type = "none"
              /\ requests' = Returned(k, "start_from_template", Close(r.open), NotFoundTarget)
              /\ last' = Served("start_from_template", 0, 0, "none", NotFoundTarget)
              /\ UNCHANGED <<db, now>>
           \/ /\ r.read.workout_type # "none"
              /\ seq.workouts < MaxWorkouts
              /\ seq.exercises + Len(rows) <= MaxExercises
              /\ workouts' = Insert(workouts, workout_id,
                      NewWorkout(r.read.workout_type, r.arg))
              /\ exercises' = [e \in DOMAIN exercises \cup new_ids |->
                      IF e \in new_ids
                      THEN ExerciseFromTemplate(workout_id,
                               template_exercises[rows[e - seq.exercises]])
                      ELSE exercises[e]]
              /\ seq' = [seq EXCEPT !.workouts = workout_id,
                                    !.exercises = seq.exercises + Len(rows)]
              /\ requests' = Returned(k, "start_from_template", Close(r.open),
                                      "active_workout")
              /\ last' = Served("start_from_template", workout_id, 0, "none",
                                "active_workout")
              /\ UNCHANGED <<sets, templates, template_exercises, now>>

\* ------------------------------------------------------------------ specifications
\* Every handler, every input.
Next ==
    \/ Tick
    \/ \E workout_type \in WorkoutTypes : start_workout(workout_type)
    \/ \E w \in WorkoutArgs, n \in RawNames : add_exercise(w, n)
    \/ \E e \in ExerciseArgs : delete_exercise(e)
    \/ \E e \in ExerciseArgs, r \in RepsInputs, k \in WeightInputs : add_set(e, r, k)
    \/ \E s \in SetArgs : delete_set(s)
    \/ \E w \in WorkoutArgs, d \in DurationInputs, k \in DistanceInputs : update_run(w, d, k)
    \/ \E w \in WorkoutArgs, n \in NotesInputs : finish_workout(w, n)
    \/ \E w \in WorkoutArgs : cancel_workout(w)
    \/ \E w \in WorkoutArgs : delete_workout(w)
    \/ \E n \in RawTemplateNames, t \in WorkoutTypes : new_template(n, t)
    \/ \E t \in TemplateArgs, n \in RawTemplateExerciseNames, a \in TargetSetsInputs,
          b \in TargetRepsInputs, c \in TargetWeightInputs :
          add_template_exercise(t, n, a, b, c)
    \/ \E x \in TemplateExerciseArgs : delete_template_exercise(x)
    \/ \E t \in TemplateArgs : delete_template(t)
    \/ \E t \in TemplateArgs : start_from_template(t)

Spec == Init /\ [][Next]_vars

\* Exercise and set numbering: the handlers that insert and delete exercises
\* and sets, on workouts that stay in progress.
NextNumbering ==
    \/ start_workout("strength")
    \/ \E w \in WorkoutArgs, n \in RawNames : add_exercise(w, n)
    \/ \E e \in ExerciseArgs : delete_exercise(e)
    \/ \E e \in ExerciseArgs, r \in RepsInputs, k \in WeightInputs : add_set(e, r, k)
    \/ \E s \in SetArgs : delete_set(s)

SpecNumbering == Init /\ [][NextNumbering]_vars

\* Insertions only: no handler that deletes a row is called.
NextAppend ==
    \/ start_workout("strength")
    \/ \E w \in WorkoutArgs, n \in RawNames : add_exercise(w, n)
    \/ \E e \in ExerciseArgs, r \in RepsInputs, k \in WeightInputs : add_set(e, r, k)

SpecAppend == Init /\ [][NextAppend]_vars

\* Workout rows: every handler that writes table workouts, and new_template
\* for start_from_template to find a template.
NextStatus ==
    \/ Tick
    \/ start_workout("run")
    \/ \E w \in WorkoutArgs : update_run(w, "30", ABSENT)
    \/ \E w \in WorkoutArgs, n \in NotesInputs : finish_workout(w, n)
    \/ \E w \in WorkoutArgs : cancel_workout(w)
    \/ \E w \in WorkoutArgs : delete_workout(w)
    \/ \E n \in RawTemplateNames : new_template(n, "strength")
    \/ \E t \in TemplateArgs : start_from_template(t)

SpecStatus == Init /\ [][NextStatus]_vars

\* Workouts with their exercises and sets, from start to finish, cancel and
\* delete.
NextChildren ==
    \/ start_workout("strength")
    \/ \E w \in WorkoutArgs, n \in RawNames : add_exercise(w, n)
    \/ \E e \in ExerciseArgs, r \in RepsInputs, k \in WeightInputs : add_set(e, r, k)
    \/ \E w \in WorkoutArgs, n \in NotesInputs : finish_workout(w, n)
    \/ \E w \in WorkoutArgs : cancel_workout(w)
    \/ \E w \in WorkoutArgs : delete_workout(w)

SpecChildren == Init /\ [][NextChildren]_vars

\* Templates and the workouts started from them.
NextTemplates ==
    \/ \E n \in RawTemplateNames, t \in WorkoutTypes : new_template(n, t)
    \/ \E t \in TemplateArgs, n \in RawTemplateExerciseNames, a \in TargetSetsInputs,
          b \in TargetRepsInputs, c \in TargetWeightInputs :
          add_template_exercise(t, n, a, b, c)
    \/ \E x \in TemplateExerciseArgs : delete_template_exercise(x)
    \/ \E t \in TemplateArgs : delete_template(t)
    \/ \E t \in TemplateArgs : start_from_template(t)

SpecTemplates == Init /\ [][NextTemplates]_vars

\* Workouts of either type, started directly or from a template, with the
\* handlers that add an exercise or run details to them.
NextTypes ==
    \/ \E workout_type \in WorkoutTypes : start_workout(workout_type)
    \/ \E w \in WorkoutArgs, n \in RawNames : add_exercise(w, n)
    \/ \E w \in WorkoutArgs : update_run(w, "30", "5")
    \/ \E n \in RawTemplateNames, t \in WorkoutTypes : new_template(n, t)
    \/ \E t \in TemplateArgs, n \in { <<" ">>, <<"B">> }, a \in { ABSENT, "x" } :
          add_template_exercise(t, n, a, ABSENT, ABSENT)
    \/ \E t \in TemplateArgs : start_from_template(t)

SpecTypes == Init /\ [][NextTypes]_vars

\* Ownership: every handler that inserts or deletes a row of a table that
\* has an owner or is one.
NextOwnership ==
    \/ start_workout("strength")
    \/ \E w \in 1..MaxWorkouts, n \in { <<" ">>, <<"B">> } : add_exercise(w, n)
    \/ \E e \in 1..2, r \in RepsInputs : add_set(e, r, "100")
    \/ \E e \in 1..MaxExercises : delete_exercise(e)
    \/ \E w \in 1..MaxWorkouts : finish_workout(w, ABSENT)
    \/ \E w \in 1..MaxWorkouts : cancel_workout(w)
    \/ \E w \in 1..MaxWorkouts : delete_workout(w)
    \/ \E n \in RawTemplateNames : new_template(n, "strength")
    \/ \E t \in 1..MaxTemplates, n \in { <<" ">>, <<"B">> }, a \in TargetSetsInputs :
          add_template_exercise(t, n, a, ABSENT, ABSENT)
    \/ \E t \in 1..MaxTemplates : delete_template(t)

SpecOwnership == Init /\ [][NextOwnership]_vars

\* Two workers: the statements of add_exercise and add_set requests interleave.
NextConcurrent ==
    \/ start_workout("strength")
    \/ \E k \in Workers, w \in 1..2, n \in { <<" ">>, <<"B">> } :
          add_exercise_select(k, w, n)
    \/ \E k \in Workers : add_exercise_insert(k)
    \/ \E k \in Workers, e \in 1..2, reps \in RepsInputs, weight \in WeightInputs :
          add_set_select(k, e, reps, weight)
    \/ \E k \in Workers : add_set_insert(k)

SpecConcurrent == Init /\ [][NextConcurrent]_vars

\* Run details: every combination of the two fields, on workouts in
\* progress and completed.
NextRun ==
    \/ Tick
    \/ start_workout("run")
    \/ \E w \in WorkoutArgs, d \in DurationInputs, k \in DistanceInputs :
          update_run(w, d, k)
    \/ \E w \in WorkoutArgs, n \in NotesInputs : finish_workout(w, n)

SpecRun == Init /\ [][NextRun]_vars

\* Connections: the handlers with an early return, statement by statement,
\* by two workers, over workouts of both types and statuses.
NextConnections ==
    \/ \E workout_type \in WorkoutTypes : start_workout(workout_type)
    \/ \E w \in 1..MaxWorkouts : finish_workout(w, ABSENT)
    \/ \E n \in RawTemplateNames : new_template(n, "strength")
    \/ \E k \in Workers, w \in WorkoutArgs : workout_page_select(k, "active_workout", w)
    \/ \E k \in Workers : active_workout_respond(k)
    \/ \E k \in Workers, w \in WorkoutArgs : workout_page_select(k, "view_workout", w)
    \/ \E k \in Workers : view_workout_respond(k)
    \/ \E k \in Workers, t \in TemplateArgs : start_from_template_select(k, t)
    \/ \E k \in Workers : start_from_template_insert(k)

SpecConnections == Init /\ [][NextConnections]_vars

\* Numbering across tables: templates and their exercises, workouts started
\* from them or directly, and the handlers that add or delete numbered rows.
NextDistinct ==
    \/ start_workout("strength")
    \/ \E n \in RawTemplateNames : new_template(n, "strength")
    \/ \E t \in 1..MaxTemplates, n \in { <<" ">>, <<"B">> }, a \in TargetSetsInputs :
          add_template_exercise(t, n, a, ABSENT, ABSENT)
    \/ \E x \in 1..MaxTemplateExercises : delete_template_exercise(x)
    \/ \E t \in 1..MaxTemplates : start_from_template(t)
    \/ \E w \in 1..MaxWorkouts, n \in { <<" ">>, <<"B">> } : add_exercise(w, n)
    \/ \E e \in 1..MaxExercises : delete_exercise(e)
    \/ \E e \in 1..2, r \in RepsInputs : add_set(e, r, "100")

SpecDistinct == Init /\ [][NextDistinct]_vars

\* ------------------------------------------------------------------ claims
\* what MAX(...) + 1 is over the numbers S already present: 1 over none
MaxPlusOne(S) == IF S = {} THEN 1 ELSE SetMax(S) + 1

\* the step inserted exactly one exercise row / one set row
InsertsExercise == seq'.exercises = seq.exercises + 1
InsertsSet == seq'.sets = seq.sets + 1
InsertedExercise == exercises'[seq'.exercises]
InsertedSet == sets'[seq'.sets]

\* some exercise (set) row that the step keeps has its number changed
RenumbersExercise ==
    \E e \in DOMAIN exercises \cap DOMAIN exercises' :
        exercises'[e].order_num # exercises[e].order_num
RenumbersSet ==
    \E x \in DOMAIN sets \cap DOMAIN sets' : sets'[x].set_number # sets[x].set_number

\* the step is an accepted AddExercise on the workout from which the request
\* just before it deleted the exercise numbered last.num
AddAfterDeleteExercise ==
    /\ last.op = "delete_exercise" /\ last.num # 0
    /\ last'.op = "add_exercise" /\ InsertsExercise
    /\ InsertedExercise.workout_id = last.id

\* every accepted AddExercise numbers its exercise max(existing)+1 over the
\* exercises the workout has then, 1 over none
AddExerciseNumbersMaxPlusOne ==
    (last'.op = "add_exercise" /\ InsertsExercise) =>
        InsertedExercise.order_num = MaxPlusOne(OrderNums(InsertedExercise.workout_id))

\* C3 as claimed: after DeleteExercise removes order_num k, the next
\* AddExercise on that workout gets max(remaining)+1 (1 if none remain), which
\* is never k, and no existing exercise is renumbered.
C3_NeverReusesDeletedOrder ==
    [][ /\ ~RenumbersExercise
        /\ AddExerciseNumbersMaxPlusOne
        /\ AddAfterDeleteExercise => InsertedExercise.order_num # last.num ]_vars

\* C3 as amended: after DeleteExercise removes order_num k, the next
\* AddExercise on that workout gets max(remaining)+1 (1 if none remain); that
\* value differs from k whenever a remaining exercise has an order_num above
\* k, and is k again exactly when k = max(remaining)+1 (the deleted exercise
\* was the last one); no existing exercise is renumbered.
C3_MaxRemainingPlusOne ==
    [][ /\ ~RenumbersExercise
        /\ AddExerciseNumbersMaxPlusOne
        /\ AddAfterDeleteExercise =>
              /\ (\E n \in OrderNums(last.id) : n > last.num)
                    => InsertedExercise.order_num # last.num
              /\ InsertedExercise.order_num = last.num
                    <=> last.num = MaxPlusOne(OrderNums(last.id)) ]_vars

\* an AddExercise that followed the deletion of order_num 1 from a workout
\* holding 1 and 2 was given 3, not 1
C3_Witness ==
    /\ last.op = "add_exercise" /\ last.num = 3
    /\ last.id \in DOMAIN workouts
    /\ OrderNums(last.id) = {2, 3}

\* C4: with no deletion, the i-th accepted AddExercise on a workout created
\* by StartWorkout creates order_num i: in id (insertion) order the exercises
\* of every workout are numbered 1, 2, ..., n.
C4_OrderNumsCountFromOne ==
    \A w \in DOMAIN workouts : \A e \in ExercisesOf(w) :
        exercises[e].order_num = Cardinality({ f \in ExercisesOf(w) : f <= e })

\* three AddExercise calls on one workout have been served
C4_Witness ==
    /\ last.op = "add_exercise" /\ last.num = 3
    /\ Cardinality(ExercisesOf(last.id)) = 3

\* the step is an accepted AddSet on the exercise from which the request just
\* before it deleted the set numbered last.num
AddAfterDeleteSet ==
    /\ last.op = "delete_set" /\ last.num # 0
    /\ last'.op = "add_set" /\ InsertsSet
    /\ InsertedSet.exercise_id = last.id

\* every accepted AddSet numbers its set max(existing)+1, 1 over none; on an
\* exercise whose sets are numbered 1..n (no deletion) that is n+1
AddSetNumbersMaxPlusOne ==
    (last'.op = "add_set" /\ InsertsSet) =>
        LET e == InsertedSet.exercise_id IN
        /\ InsertedSet.set_number = MaxPlusOne(SetNumbers(e))
        /\ SetNumbers(e) = 1..Cardinality(SetsOf(e))
              => InsertedSet.set_number = Cardinality(SetsOf(e)) + 1

\* C5 as claimed: AddSet assigns max(existing set_number)+1, or 1 over none;
\* absent deletions the numbers are 1, 2, 3, ...; after DeleteSet removes the
\* set numbered k the next AddSet yields max(remaining)+1, never k.
C5_NeverReusesDeletedSetNumber ==
    [][ /\ ~RenumbersSet
        /\ AddSetNumbersMaxPlusOne
        /\ AddAfterDeleteSet => InsertedSet.set_number # last.num ]_vars

\* C5 as amended: AddSet assigns max(existing set_number)+1, or 1 over none;
\* absent deletions the numbers are 1, 2, 3, ...; after DeleteSet removes the
\* set numbered k the next AddSet yields max(remaining)+1, which differs from
\* k whenever a remaining set has a number above k and is k again exactly
\* when k = max(remaining)+1 (the deleted set was the last one).
C5_SetMaxRemainingPlusOne ==
    [][ /\ ~RenumbersSet
        /\ AddSetNumbersMaxPlusOne
        /\ AddAfterDeleteSet =>
              /\ (\E n \in SetNumbers(last.id) : n > last.num)
                    => InsertedSet.set_number # last.num
              /\ InsertedSet.set_number = last.num
                    <=> last.num = MaxPlusOne(SetNumbers(last.id)) ]_vars

\* an AddSet that followed the deletion of set 1 from an exercise holding
\* sets 1 and 2 was given 3, not 1
C5_Witness ==
    /\ last.op = "add_set" /\ last.num = 3
    /\ last.id \in DOMAIN exercises
    /\ SetNumbers(last.id) = {2, 3}

\* C1 as claimed: DeleteWorkout on a workout that is in_progress changes
\* neither the workout row nor any exercise or set.
C1_DeleteInProgressIsNoOp ==
    [][ \A w \in DOMAIN workouts :
          (workouts[w].status = "in_progress" /\ delete_workout(w))
              => UNCHANGED <<workouts, exercises, sets>> ]_vars

\* C2 as claimed: CancelWorkout on a workout that is completed, or on an id
\* that names no workout, changes neither the workout row nor any exercise or
\* set.
C2_CancelCompletedIsNoOp ==
    [][ \A w \in WorkoutArgs :
          (StatusOf(w) \in {"completed", "none"} /\ cancel_workout(w))
              => UNCHANGED <<workouts, exercises, sets>> ]_vars

\* the (name, order_num, target_sets, target_reps, target_weight) of a row
Targets(row) ==
    <<row.name, row.order_num, row.target_sets, row.target_reps, row.target_weight>>

\* C6: StartWorkoutFromTemplate(T) on an existing template adds exactly one
\* workout, in_progress, with T's workout_type and template_id = T, whose
\* exercises are exactly T's template exercises as (name, order_num,
\* target_sets, target_reps, target_weight), one per template exercise, each
\* with no set; no other workout or exercise changes.
C6_WorkoutCopiesTemplate ==
    [][ \A t \in DOMAIN templates : start_from_template(t) =>
          LET created == DOMAIN workouts' \ DOMAIN workouts
              copied == { e \in DOMAIN exercises' : exercises'[e].workout_id \in created }
          IN  /\ Cardinality(created) = 1
              /\ \A w \in DOMAIN workouts : w \in DOMAIN workouts' /\ workouts'[w] = workouts[w]
              /\ \A w \in created :
                    /\ workouts'[w].status = "in_progress"
                    /\ workouts'[w].workout_type = templates[t].workout_type
                    /\ workouts'[w].template_id = t
              /\ { Targets(exercises'[e]) : e \in copied }
                    = { Targets(template_exercises[x]) : x \in TemplateExercisesOf(t) }
              /\ Cardinality(copied) = Cardinality(TemplateExercisesOf(t))
              /\ DOMAIN exercises' = DOMAIN exercises \cup copied
              /\ \A e \in DOMAIN exercises : exercises'[e] = exercises[e]
              /\ \A x \in DOMAIN sets' : sets'[x].exercise_id \notin copied ]_vars

\* a workout was started from a template of two exercises, one with the
\* default targets and one with target_reps 8; it has both
C6_Witness ==
    /\ last.op = "start_from_template" /\ last.id \in DOMAIN workouts
    /\ Cardinality(ExercisesOf(last.id)) = 2
    /\ \E e \in ExercisesOf(last.id) : exercises[e].target_reps = 8
    /\ \E e \in ExercisesOf(last.id) :
          exercises[e].target_reps = 10 /\ exercises[e].target_sets = 3

\* C7: every FinishWorkout on an existing workout, the second as the first,
\* leaves status = completed, stores the notes of that call and sets
\* completed_at to the time of that call, and redirects to the detail view.
C7_FinishOverwritesNotesAndTime ==
    [][ \A w \in DOMAIN workouts, n \in NotesInputs : finish_workout(w, n) =>
          /\ w \in DOMAIN workouts'
          /\ workouts'[w].status = "completed"
          /\ workouts'[w].notes = (IF n = ABSENT THEN "" ELSE n)
          /\ workouts'[w].completed_at = now
          /\ last'.to = "view_workout" ]_vars

\* a workout that was completed has been finished again, at time 2 with
\* notes "good": it carries that call's time and notes
C7_Witness ==
    /\ last.op = "finish_workout" /\ last.pre = "completed"
    /\ last.id \in DOMAIN workouts
    /\ now = 2
    /\ workouts[last.id].completed_at = 2
    /\ workouts[last.id].notes = "good"

\* C8: a workout row is created in_progress, under an id no row had before;
\* a row that is completed is completed after every step that keeps it.
C8_StatusMonotone ==
    [][ \A w \in DOMAIN workouts' :
          IF w \in DOMAIN workouts
          THEN workouts[w].status = "completed" => workouts'[w].status = "completed"
          ELSE workouts'[w].status = "in_progress" /\ w > seq.workouts ]_vars

\* run details were saved on a completed workout, which is still completed
C8_Witness ==
    /\ last.op = "update_run" /\ last.pre = "completed"
    /\ last.id \in DOMAIN workouts
    /\ workouts[last.id].status = "completed"
    /\ workouts[last.id].duration_minutes = 30

InProgress == { w \in DOMAIN workouts : workouts[w].status = "in_progress" }

\* C9 as claimed: at most one workout is in_progress.
C9_AtMostOneInProgress == Cardinality(InProgress) <= 1

\* every run workout has no exercise, every other workout no run details
TypeDecidesChildren ==
    \A w \in DOMAIN workouts :
        IF workouts[w].workout_type = "run"
        THEN ExercisesOf(w) = {}
        ELSE workouts[w].duration_minutes = NULL /\ workouts[w].distance_km = NULL

\* C10 as claimed: a workout keeps the workout_type it was created with, a
\* run workout owns no exercise, and a workout of another type has neither
\* duration_minutes nor distance_km.
C10_TypeDecidesChildren ==
    [][ /\ \A w \in DOMAIN workouts \cap DOMAIN workouts' :
              workouts'[w].workout_type = workouts[w].workout_type
        /\ TypeDecidesChildren' ]_vars

\* C11: no orphans.  Every set names an existing exercise, every exercise an
\* existing workout, every template exercise an existing template, in every
\* state that requests served one after the other can reach; so a delete of
\* an exercise, a template or a workout leaves no row that it owned.
C11_NoOrphans ==
    /\ \A s \in DOMAIN sets : sets[s].exercise_id \in DOMAIN exercises
    /\ \A e \in DOMAIN exercises : exercises[e].workout_id \in DOMAIN workouts
    /\ \A x \in DOMAIN template_exercises :
           template_exercises[x].template_id \in DOMAIN templates

\* the only workout, which had exercises and sets inserted under it, has just
\* been deleted after it was completed, and the template after it got exercises
C11_Witness ==
    /\ last.op = "delete_workout" /\ last.id = 1 /\ last.pre = "completed"
    /\ seq.workouts = 1 /\ seq.exercises >= 1 /\ seq.sets >= 1
    /\ workouts = << >>
    /\ seq.template_exercises >= 1 /\ templates = << >>

\* the workout row w and its exercise rows are the same before and after the step
WorkoutKept(w) ==
    /\ w \in DOMAIN workouts'
    /\ workouts'[w] = workouts[w]
    /\ ExercisesOf(w)' = ExercisesOf(w)
    /\ \A e \in ExercisesOf(w) : exercises'[e] = exercises[e]

StartedFrom(t) == { w \in DOMAIN workouts : workouts[w].template_id = t }

\* C12: a workout started from template T is a copy.  A later
\* add_template_exercise, delete_template_exercise or delete_template on T
\* leaves the workout row and its exercises (name, order_num, targets) as
\* they were.
C12_TemplateEditsKeepWorkouts ==
    [][ /\ \A t \in TemplateArgs :
            ( \/ \E n \in RawTemplateExerciseNames, a \in TargetSetsInputs,
                    b \in TargetRepsInputs, c \in TargetWeightInputs :
                    add_template_exercise(t, n, a, b, c)
              \/ delete_template(t) )
            => \A w \in StartedFrom(t) : WorkoutKept(w)
        /\ \A x \in DOMAIN template_exercises :
            delete_template_exercise(x)
            => \A w \in StartedFrom(template_exercises[x].template_id) : WorkoutKept(w)
      ]_vars

\* a template that a workout with exercises was started from has been deleted
C12_Witness ==
    /\ last.op = "delete_template" /\ last.id = 1
    /\ 1 \in DOMAIN workouts /\ workouts[1].template_id = 1
    /\ ExercisesOf(1) # {}
    /\ templates = << >> /\ template_exercises = << >>

\* a name made of white space only, or of nothing
Blank(n) == \A i \in 1..Len(n) : IsSpace(n[i])

\* C13: add_exercise and add_template_exercise with a name that is empty
\* after trimming are no-ops: no row is inserted, no order_num is used up,
\* the store is as it was.
C13_BlankNameIsNoOp ==
    [][ /\ \A w \in WorkoutArgs, n \in RawNames :
            (Blank(n) /\ add_exercise(w, n)) => UNCHANGED db
        /\ \A t \in TemplateArgs, n \in RawTemplateExerciseNames,
              a \in TargetSetsInputs, b \in TargetRepsInputs, c \in TargetWeightInputs :
            (Blank(n) /\ add_template_exercise(t, n, a, b, c)) => UNCHANGED db
      ]_vars

\* a blank name has just been turned down for a workout that has an exercise
C13_Witness ==
    /\ last = Served("add_exercise", 0, 0, "none", "active_workout")
    /\ 1 \in DOMAIN workouts
    /\ OrderNums(1) = {1}
    /\ seq.exercises = 1

\* C14, as stated: start_from_template with a template_id that names no
\* template creates nothing (the store is as it was) and redirects to the
\* template list, the page of list_templates.
C14_NotFoundGoesToTemplateList ==
    [][ \A t \in TemplateArgs :
          (t \notin DOMAIN templates /\ start_from_template(t))
              => (UNCHANGED db /\ last'.to = "list_templates") ]_vars

\* C14, amended: start_from_template with a template_id that names no
\* template creates nothing (the store is as it was) and redirects to the
\* workout-type and template picker, the page of select_workout_type.
C14_NotFoundGoesToPicker ==
    [][ \A t \in TemplateArgs :
          (t \notin DOMAIN templates /\ start_from_template(t))
              => (UNCHANGED db /\ last'.to = "select_workout_type") ]_vars

\* a start from a template that was deleted has just been turned down
C14_Witness ==
    /\ last = Served("start_from_template", 0, 0, "none", "select_workout_type")
    /\ seq.templates = 1 /\ templates = << >>
    /\ workouts = << >> /\ exercises = << >>

\* two rows of one exercise with the same set_number
DuplicateSetNumber ==
    \E a, b \in DOMAIN sets :
        a # b /\ sets[a].exercise_id = sets[b].exercise_id
              /\ sets[a].set_number = sets[b].set_number

\* two rows of one workout with the same order_num
DuplicateOrderNum ==
    \E a, b \in DOMAIN exercises :
        a # b /\ exercises[a].workout_id = exercises[b].workout_id
              /\ exercises[a].order_num = exercises[b].order_num

\* workers k and j have both read the same MAX for the same owner and
\* neither has inserted yet
BothHaveRead(k, j, op) ==
    /\ k # j
    /\ requests[k].op = op /\ requests[k].pc = "insert"
    /\ requests[j].op = op /\ requests[j].pc = "insert"
    /\ requests[k].arg = requests[j].arg
    /\ requests[k].read = requests[j].read

\* C15: by concurrent workers, the number a request inserts is the one it
\* computed from its own SELECT MAX, whatever has been inserted since.  When
\* two add_set requests on one exercise (two add_exercise requests on one
\* workout) have both read the same MAX before either inserts, the insert of
\* the first changes nothing in what the second will insert, and the second
\* inserts the number the first inserted: duplicates are reachable (C15_Witness).
C15_InsertsTheNumberItRead ==
    [][ \A k \in Workers :
          /\ (add_set_insert(k) /\ InsertsSet)
                => /\ sets'[seq'.sets].set_number = OrZero(requests[k].read) + 1
                   /\ \A j \in Workers : BothHaveRead(k, j, "add_set")
                         => /\ requests'[j] = requests[j]
                            /\ \E x \in SetsOf(requests[j].arg)' :
                                  sets'[x].set_number = OrZero(requests'[j].read) + 1
          /\ (add_exercise_insert(k) /\ InsertsExercise)
                => /\ exercises'[seq'.exercises].order_num = OrZero(requests[k].read) + 1
                   /\ \A j \in Workers : BothHaveRead(k, j, "add_exercise")
                         => /\ requests'[j] = requests[j]
                            /\ \E x \in ExercisesOf(requests[j].arg)' :
                                  exercises'[x].order_num = OrZero(requests'[j].read) + 1
      ]_vars

\* two sets of one exercise carry the same set_number and two exercises of
\* one workout the same order_num
C15_Witness == DuplicateSetNumber /\ DuplicateOrderNum

\* C16: a workout has a completed_at exactly when its status is completed:
\* start_workout and start_from_template insert it in_progress without one,
\* finish_workout sets both, and no other handler writes either column.
C16_CompletedAtIffCompleted ==
    \A w \in DOMAIN workouts :
        (workouts[w].completed_at # NULL) <=> (workouts[w].status = "completed")

\* a finished workout with its completion time next to one, started from a
\* template, that is still in progress and has none
C16_Witness ==
    \E a, b \in DOMAIN workouts :
        /\ workouts[a].status = "completed" /\ workouts[a].completed_at \in 1..MaxTime
        /\ workouts[b].status = "in_progress" /\ workouts[b].completed_at = NULL
        /\ workouts[b].template_id # NULL

\* view is in order_num order, each exercise's sets in set_number order
InOrder(view) ==
    /\ \A i, j \in 1..Len(view) :
          i < j => view[i].exercise.order_num < view[j].exercise.order_num
    /\ \A i \in 1..Len(view) : \A j, k \in 1..Len(view[i].sets) :
          j < k => view[i].sets[j].set_number < view[i].sets[k].set_number

\* the detail view of every completed workout w lists all its exercises in
\* order_num order, each with all its sets in set_number order
DetailViewInOrder ==
    \A w \in DOMAIN workouts :
        workouts[w].status = "completed"
            => LET view == exercises_with_sets(w)
               IN  /\ InOrder(view)
                   /\ { view[i].exercise : i \in 1..Len(view) }
                          = { exercises[e] : e \in ExercisesOf(w) }
                   /\ \A e \in ExercisesOf(w) : \E i \in 1..Len(view) :
                          /\ view[i].exercise = exercises[e]
                          /\ { view[i].sets[j] : j \in 1..Len(view[i].sets) }
                                 = { sets[x] : x \in SetsOf(e) }

StoredDuration(text) == IF text = "30" THEN 30 ELSE NULL
StoredDistance(text) == IF text = "5" THEN 5 ELSE NULL

\* C18: update_run(w, duration, distance) sets both duration_minutes and
\* distance_km of workout w: to the submitted number, to null for a field
\* that is absent or does not parse, and it does not fail.  Status, notes,
\* completed_at and every other row are as they were.
C18_UpdateRunSetsBothFields ==
    [][ \A w \in DOMAIN workouts, d \in DurationInputs, k \in DistanceInputs :
          update_run(w, d, k)
            => /\ DOMAIN workouts' = DOMAIN workouts
               /\ workouts'[w] = [workouts[w] EXCEPT
                                     !.duration_minutes = StoredDuration(d),
                                     !.distance_km = StoredDistance(k)]
               /\ \A v \in DOMAIN workouts \ {w} : workouts'[v] = workouts[v]
               /\ last'.to = "workout_summary"
               /\ UNCHANGED <<exercises, sets, templates, template_exercises, seq>>
      ]_vars

\* a completed run whose duration was saved before has just been saved again
\* with the distance only: the duration is null, the workout still completed
C18_Witness ==
    /\ last.op = "update_run" /\ last.id = 1 /\ last.pre = "completed"
    /\ workouts[1].status = "completed"
    /\ workouts[1].notes = "good"
    /\ workouts[1].completed_at = MaxTime
    /\ workouts[1].duration_minutes = NULL
    /\ workouts[1].distance_km = 5

\* C19: a request that has returned a page or a redirect has closed the
\* connection it opened, whichever exit it took: the early returns of
\* active_workout, view_workout and start_from_template as well as their
\* last lines.
C19_ReturnedMeansClosed ==
    \A k \in Workers :
        (requests[k].pc = "done" /\ requests[k].to \notin {"none", "500"})
            => ~requests[k].open

\* one worker has left view_workout by its in-progress return with its
\* connection closed, the other holds an open connection in the middle of
\* active_workout
C19_Witness ==
    /\ requests[1] = Request("view_workout", "done", 0, 0, << >>, FALSE, "active_run")
    /\ last = Served("view_workout", 1, 0, "in_progress", "active_run")
    /\ requests[2].op = "active_workout" /\ requests[2].pc = "respond"
    /\ requests[2].open

\* two rows of one template with the same order_num
DuplicateTemplateOrderNum ==
    \E a, b \in DOMAIN template_exercises :
        a # b /\ template_exercises[a].template_id = template_exercises[b].template_id
              /\ template_exercises[a].order_num = template_exercises[b].order_num

\* C20: by requests served one after the other, the order_num values within
\* a workout, the set_number values within an exercise and the order_num
\* values within a template are pairwise distinct, also in a workout that
\* was started from a template and then got exercises by add_exercise.
C20_NumbersDistinct ==
    /\ ~DuplicateOrderNum
    /\ ~DuplicateSetNumber
    /\ ~DuplicateTemplateOrderNum

\* a workout started from a template holds a copied exercise and one added
\* by add_exercise, and one of its exercises has two sets
C20_Witness ==
    \E w \in DOMAIN workouts :
        /\ workouts[w].template_id # NULL
        /\ \E a, b \in ExercisesOf(w) :
              /\ exercises[a].target_sets # NULL
              /\ exercises[b].target_sets = NULL
              /\ exercises[a].order_num < exercises[b].order_num
              /\ Cardinality(SetsOf(a)) = 2

\* the workout row v, its exercise rows and their set rows are the same
\* before and after the step
WorkoutAndSetsKept(v) ==
    /\ WorkoutKept(v)
    /\ \A e \in ExercisesOf(v) :
          /\ SetsOf(e)' = SetsOf(e)
          /\ \A x \in SetsOf(e) : sets'[x] = sets[x]

\* C21: cancel_workout(w) and delete_workout(w) touch only rows owned by
\* w.  Every other workout keeps its row, its exercises and their sets, and
\* all templates and template exercises are as they were.
C21_CancelDeleteTouchOnlyOwnRows ==
    [][ \A w \in WorkoutArgs :
          ( /\ last'.op \in {"cancel_workout", "delete_workout"}
            /\ (cancel_workout(w) \/ delete_workout(w)) )
            => /\ UNCHANGED <<templates, template_exercises>>
               /\ \A v \in DOMAIN workouts \ {w} : WorkoutAndSetsKept(v)
      ]_vars

\* workout 1 has just been cancelled with its exercise, while workout 2
\* holds an exercise with a set and the template holds an exercise
C21_Witness ==
    /\ last = Served("cancel_workout", 1, 0, "in_progress", "index")
    /\ 1 \notin DOMAIN workouts
    /\ seq.exercises = MaxExercises
    /\ 2 \in DOMAIN workouts
    /\ \E e \in ExercisesOf(2) : SetsOf(e) # {}
    /\ Cardinality(DOMAIN exercises) < MaxExercises
    /\ template_exercises # << >>

====
